---- MODULE Spec2Model ----
(***************************************************************************)
(* Model of storage/handler.go: the generic Get / Delete / Upsert / List   *)
(* HTTP handlers over a storage Manager, and the in-memory filter          *)
(* ListByQuery that List applies to roles and policies.                    *)
(*                                                                         *)
(* One request is handled at a time (requests share no state inside this   *)
(* layer).  A handler runs as one atomic action from the idle state; the   *)
(* variables then hold what that request did: the backend calls it made,   *)
(* the responses it wrote and, for List, the request object and the heap   *)
(* cells its Value pointers refer to.                                      *)
(***************************************************************************)
EXTENDS Integers, Sequences, FiniteSets, TLC

VARIABLES pc,          \* "idle" (waiting for a request) or "done" (handler returned or panicked)
          op,          \* handler that ran: "none", "Get", "Delete", "Upsert", "List"
          factoryErr,  \* error returned by the request factory ("none" = nil)
          backendErr,  \* error returned by the storage manager ("none" = nil)
          l,           \* the request object built by the factory (List: Collection, Value, FilterFunc)
          heap,        \* address -> cell; Value fields hold addresses
          dest,        \* address of the destination the factory supplied in Value
          query,       \* r.URL.Query(): present key -> list of values
          limit,       \* pagination.Parse result
          offset,      \* pagination.Parse result
          isFilter,    \* local isFilter of Handler.List
          res,         \* local res of ListByQuery after the loop, before re-slicing
          calls,       \* backend calls made by this request, in order
          responses,   \* responses written by this request, in order
          panicked     \* TRUE iff the handler panicked

vars == <<pc, op, factoryErr, backendErr, l, heap, dest, query, limit, offset,
          isFilter, res, calls, responses, panicked>>

-----------------------------------------------------------------------------
(* Bounds and input pools *)

MaxItems == 3           \* longest sequence the backend hands back

Sep == "/"

\* Collection names are sequences of tokens: Sep, or a non-empty run of
\* characters without a slash.  Adjacent runs concatenate ("x" "roles" is the
\* single segment "xroles").
Collections ==
    { <<"policies">>, <<"roles">>,
      <<"x", Sep, "policies">>, <<"x", Sep, "roles">>,
      <<"roles", Sep, "x">>, <<"policies", Sep>>,
      <<"x", "roles">>, <<>> }

Keys == {"k1", "k2"}

Kinds == {"Roles", "Policies", "Other"}

FilterFuncs == {"nil", "ListByQuery"}

FactoryErrs == {"none", "decode"}
BackendErrs == {"none", "notfound", "failure"}

RolePool ==
    { [ID |-> "1", Members |-> <<"alice">>],
      [ID |-> "2", Members |-> <<"Alice", "bob">>] }

PolicyPool ==
    { [ID |-> "1", Subjects |-> <<"s1">>, Resources |-> <<"res1">>, Actions |-> <<"read">>],
      [ID |-> "2", Subjects |-> <<"s2">>, Resources |-> <<"res1", "res2">>,
       Actions |-> <<"read", "write">>] }

OtherPool == { [Opaque |-> "a"], [Opaque |-> "b"] }

Pool(kind) == IF kind = "Roles" THEN RolePool
              ELSE IF kind = "Policies" THEN PolicyPool
              ELSE OtherPool

\* all sequences over S of length at most n
SeqsUpTo(S, n) == UNION { [1..k -> S] : k \in 0..n }

Min(a, b) == IF a < b THEN a ELSE b

\* values a URL may carry for each filter key (<<>> = key absent)
ParamValues(k) ==
    IF k = "member" THEN { <<>>, <<"alice">>, <<"bob", "carol">> }
    ELSE IF k = "id" THEN { <<>>, <<"1">> }
    ELSE IF k = "subject" THEN { <<>>, <<"s1">> }
    ELSE IF k = "resource" THEN { <<>>, <<"res1">> }
    ELSE { <<>>, <<"write">> }

FilterKeys == {"member", "id", "subject", "resource", "action"}

\* url.Values holds only the keys present in the URL
QueryOf(f) == [k \in {j \in FilterKeys : f[j] /= <<>>} |-> f[k]]

Queries ==
    { QueryOf([member |-> mb, id |-> i, subject |-> sb, resource |-> rs, action |-> ac]) :
        mb \in ParamValues("member"), i \in ParamValues("id"),
        sb \in ParamValues("subject"), rs \in ParamValues("resource"),
        ac \in ParamValues("action") }

\* raw limit / offset parameters: <<>> absent, <<n>> the parsed integer
LimitParams == { <<>>, <<-1>>, <<1>>, <<2>>, <<600>> }
OffsetParams == { <<>>, <<-1>>, <<1>>, <<2>> }

-----------------------------------------------------------------------------
(* Values *)

NilRequest == [Collection |-> <<>>, Key |-> "", Value |-> 0, FilterFunc |-> "nil"]

EmptyQuery == [k \in {} |-> <<>>]

Cell(kind, items) == [kind |-> kind, items |-> items]

EmptyHeap == [a \in {} |-> Cell("Other", <<>>)]

ErrorResponse(err) == [kind |-> "error", status |-> 0, err |-> err, body |-> Cell("None", <<>>)]
WriteResponse(v) == [kind |-> "write", status |-> 200, err |-> "none", body |-> v]
NoContentResponse == [kind |-> "header", status |-> 204, err |-> "none", body |-> Cell("None", <<>>)]

\* a call on the storage Manager, with the records it handed back
BackendCall(name, coll, key, lim, off, err, result) ==
    [name |-> name, Collection |-> coll, Key |-> key, limit |-> lim, offset |-> off,
     err |-> err, result |-> result]

\* what a handler did: the fields of the model's state it determines
Outcome(lreq, hp, filt, lim, off, r, cs, rs, pn) ==
    [l |-> lreq, heap |-> hp, isFilter |-> filt, limit |-> lim, offset |-> off,
     res |-> r, calls |-> cs, responses |-> rs, panicked |-> pn]

-----------------------------------------------------------------------------
(* Collaborators outside handler.go *)

\* Go map lookup: the zero value (nil slice) for an absent key
Lookup(m, k) == IF k \in DOMAIN m THEN m[k] ELSE <<>>

Intersects(xs, ys) == \E i \in 1..Len(xs) : \E j \in 1..Len(ys) : xs[i] = ys[j]

Contains(xs, x) == \E i \in 1..Len(xs) : xs[i] = x

\* A *Role / *Policy is <<>> (nil) or <<record>>.
withMembers(r, members) ==
    IF r = <<>> \/ members = <<>> THEN r
    ELSE IF Intersects(r[1].Members, members) THEN r ELSE <<>>

withSubjects(p, subjects) ==
    IF p = <<>> \/ subjects = <<>> THEN p
    ELSE IF Intersects(p[1].Subjects, subjects) THEN p ELSE <<>>

withResources(p, resources) ==
    IF p = <<>> \/ resources = <<>> THEN p
    ELSE IF Intersects(p[1].Resources, resources) THEN p ELSE <<>>

withActions(p, actions) ==
    IF p = <<>> \/ actions = <<>> THEN p
    ELSE IF Intersects(p[1].Actions, actions) THEN p ELSE <<>>

withIDs(r, ids) ==
    IF r = <<>> \/ ids = <<>> THEN r
    ELSE IF Contains(ids, r[1].ID) THEN r ELSE <<>>

\* pagination.Index(limit, offset, length): a valid [start, end) window
Index(lim, off, length) ==
    IF off > length THEN [start |-> length, end |-> length]
    ELSE IF lim + off > length THEN [start |-> off, end |-> length]
    ELSE [start |-> off, end |-> off + lim]

\* pagination.Parse(r, defaultLimit, defaultOffset, maxLimit)
Parse(limitParam, offsetParam, defaultLimit, defaultOffset, maxLimit) ==
    LET lim0 == IF limitParam = <<>> THEN defaultLimit ELSE limitParam[1]
        off0 == IF offsetParam = <<>> THEN defaultOffset ELSE offsetParam[1]
        lim1 == IF lim0 > maxLimit THEN maxLimit ELSE lim0
    IN [limit  |-> IF lim1 < 0 THEN 0 ELSE lim1,
        offset |-> IF off0 < 0 THEN 0 ELSE off0]

\* Manager.List / Manager.ListAll decode the records they fetched into the
\* destination that value points to.
ManagerFill(hp, value, data) == [hp EXCEPT ![value].items = data]

\* what Manager.List(limit, offset) may hand back: a page of at most limit records
ManagerListResults(kind, lim) == SeqsUpTo(Pool(kind), Min(lim, MaxItems))

\* what Manager.ListAll may hand back: the whole collection
ManagerListAllResults(kind) == SeqsUpTo(Pool(kind), MaxItems)

-----------------------------------------------------------------------------
(* handler.go *)

\* strings.Split(l.Collection, "/")
RECURSIVE Split(_)
Split(s) ==
    IF s = <<>> THEN << <<>> >>
    ELSE LET rest == Split(Tail(s)) IN
         IF Head(s) = Sep THEN << <<>> >> \o rest
         ELSE << <<Head(s)>> \o Head(rest) >> \o Tail(rest)

\* collectionType := split[len(split)-1]
CollectionType(coll) == LET split == Split(coll) IN split[Len(split)]

\* variant: the id parameter is counted as a filter dimension
IsFilterFor_IdCounts(collectionType, queryParams) ==
    IF collectionType = <<"policies">>
    THEN \/ "action" \in DOMAIN queryParams
         \/ "subject" \in DOMAIN queryParams
         \/ "resource" \in DOMAIN queryParams
         \/ "id" \in DOMAIN queryParams
    ELSE IF collectionType = <<"roles">>
    THEN \/ "member" \in DOMAIN queryParams
         \/ "id" \in DOMAIN queryParams
    ELSE FALSE

\* variant: every collection that is not "policies" is treated as "roles"
IsFilterFor_ElseRoles(collectionType, queryParams) ==
    IF collectionType = <<"policies">>
    THEN \/ "action" \in DOMAIN queryParams
         \/ "subject" \in DOMAIN queryParams
         \/ "resource" \in DOMAIN queryParams
    ELSE "member" \in DOMAIN queryParams

\* the isFilter decision of Handler.List
IsFilterFor(collectionType, queryParams) ==
    IF collectionType = <<"policies">>
    THEN \/ "action" \in DOMAIN queryParams
         \/ "subject" \in DOMAIN queryParams
         \/ "resource" \in DOMAIN queryParams
    ELSE IF collectionType = <<"roles">>
    THEN "member" \in DOMAIN queryParams
    ELSE FALSE

\* variant: the loop forgets .withIDs
RECURSIVE RolesLoop_NoIDs(_, _, _)
RolesLoop_NoIDs(val, m, acc) ==
    IF val = <<>> THEN acc
    ELSE LET role == Head(val)
             filteredRole == withMembers(<<role>>, Lookup(m, "member"))
         IN RolesLoop_NoIDs(Tail(val), m,
                      IF filteredRole /= <<>> THEN Append(acc, filteredRole[1]) ELSE acc)

\* the loop over *val in the *Roles case
RECURSIVE RolesLoop(_, _, _)
RolesLoop(val, m, acc) ==
    IF val = <<>> THEN acc
    ELSE LET role == Head(val)
             filteredRole == withIDs(withMembers(<<role>>, Lookup(m, "member")), Lookup(m, "id"))
         IN RolesLoop(Tail(val), m,
                      IF filteredRole /= <<>> THEN Append(acc, filteredRole[1]) ELSE acc)

\* variant: the loop forgets .withActions
RECURSIVE PoliciesLoop_NoActions(_, _, _)
PoliciesLoop_NoActions(val, m, acc) ==
    IF val = <<>> THEN acc
    ELSE LET policy == Head(val)
             filteredPolicy ==
                 withIDs(withResources(withSubjects(<<policy>>,
                     Lookup(m, "subject")), Lookup(m, "resource")), Lookup(m, "id"))
         IN PoliciesLoop_NoActions(Tail(val), m,
                         IF filteredPolicy /= <<>> THEN Append(acc, filteredPolicy[1]) ELSE acc)

\* variant: the loop prepends the survivors (result in reverse order)
RECURSIVE PoliciesLoop_Prepend(_, _, _)
PoliciesLoop_Prepend(val, m, acc) ==
    IF val = <<>> THEN acc
    ELSE LET policy == Head(val)
             filteredPolicy ==
                 withIDs(withActions(withResources(withSubjects(<<policy>>,
                     Lookup(m, "subject")), Lookup(m, "resource")), Lookup(m, "action")),
                     Lookup(m, "id"))
         IN PoliciesLoop_Prepend(Tail(val), m,
                         IF filteredPolicy /= <<>> THEN <<filteredPolicy[1]>> \o acc ELSE acc)

\* the loop over *val in the *Policies case
RECURSIVE PoliciesLoop(_, _, _)
PoliciesLoop(val, m, acc) ==
    IF val = <<>> THEN acc
    ELSE LET policy == Head(val)
             filteredPolicy ==
                 withIDs(withActions(withResources(withSubjects(<<policy>>,
                     Lookup(m, "subject")), Lookup(m, "resource")), Lookup(m, "action")),
                     Lookup(m, "id"))
         IN PoliciesLoop(Tail(val), m,
                         IF filteredPolicy /= <<>> THEN Append(acc, filteredPolicy[1]) ELSE acc)

\* variant: res[start:end-1]
Reslice_DropLast(r, lim, off) ==
    LET w == Index(lim, off, Len(r)) IN SubSeq(r, w.start + 1, w.end - 1)

\* variant: the offset is not applied a second time
Reslice_NoOffset(r, lim, off) ==
    LET w == Index(lim, 0, Len(r)) IN SubSeq(r, w.start + 1, w.end)

\* start, end := pagination.Index(limit, offset, len(res)); res = res[start:end]
Reslice(r, lim, off) ==
    LET w == Index(lim, off, Len(r)) IN SubSeq(r, w.start + 1, w.end)

\* a fresh allocation
NewAddr(hp) == Cardinality(DOMAIN hp) + 1

\* variant: the default case returns an empty sequence instead of panicking
ListByQuery_NoPanic(lreq, hp, m, off, lim) ==
    LET val == hp[lreq.Value]
        a == NewAddr(hp)
    IN IF val.kind = "Roles"
       THEN LET r == RolesLoop(val.items, m, <<>>) IN
            [l |-> [lreq EXCEPT !.Value = a],
             heap |-> hp @@ (a :> Cell("Roles", Reslice(r, lim, off))),
             res |-> r, panicked |-> FALSE]
       ELSE IF val.kind = "Policies"
       THEN LET r == PoliciesLoop(val.items, m, <<>>) IN
            [l |-> [lreq EXCEPT !.Value = a],
             heap |-> hp @@ (a :> Cell("Policies", Reslice(r, lim, off))),
             res |-> r, panicked |-> FALSE]
       ELSE [l |-> [lreq EXCEPT !.Value = a],
             heap |-> hp @@ (a :> Cell("Other", <<>>)),
             res |-> <<>>, panicked |-> FALSE]

\* variant: the result is stored through the pointer (*val = res) instead of
\* rebinding l.Value
ListByQuery_InPlace(lreq, hp, m, off, lim) ==
    LET val == hp[lreq.Value]
    IN IF val.kind = "Roles"
       THEN LET r == RolesLoop(val.items, m, <<>>) IN
            [l |-> lreq,
             heap |-> [hp EXCEPT ![lreq.Value].items = Reslice(r, lim, off)],
             res |-> r, panicked |-> FALSE]
       ELSE IF val.kind = "Policies"
       THEN LET r == PoliciesLoop(val.items, m, <<>>) IN
            [l |-> lreq,
             heap |-> [hp EXCEPT ![lreq.Value].items = Reslice(r, lim, off)],
             res |-> r, panicked |-> FALSE]
       ELSE [l |-> lreq, heap |-> hp, res |-> <<>>, panicked |-> TRUE]

\* ListByQuery(l, m, offset, limit): the new request, the new heap, the local
\* res after the loop, and whether the call panicked
ListByQuery(lreq, hp, m, off, lim) ==
    LET val == hp[lreq.Value]
        a == NewAddr(hp)
    IN IF val.kind = "Roles"
       THEN LET r == RolesLoop(val.items, m, <<>>) IN
            [l |-> [lreq EXCEPT !.Value = a],
             heap |-> hp @@ (a :> Cell("Roles", Reslice(r, lim, off))),
             res |-> r, panicked |-> FALSE]
       ELSE IF val.kind = "Policies"
       THEN LET r == PoliciesLoop(val.items, m, <<>>) IN
            [l |-> [lreq EXCEPT !.Value = a],
             heap |-> hp @@ (a :> Cell("Policies", Reslice(r, lim, off))),
             res |-> r, panicked |-> FALSE]
       ELSE [l |-> lreq, heap |-> hp, res |-> <<>>, panicked |-> TRUE]

\* (*ListRequest).Filter
Filter(lreq, hp, m, off, lim) ==
    IF lreq.FilterFunc /= "nil"
    THEN ListByQuery(lreq, hp, m, off, lim)
    ELSE [l |-> lreq, heap |-> hp, res |-> <<>>, panicked |-> FALSE]

DefaultLimit == 100
DefaultOffset == 0
MaxLimit == 500

\* the handler returned by Handler.List, run on one request
ListHandler(fErr, lreq, hp, queryParams, limitParam, offsetParam, bErr, data) ==
    IF fErr /= "none"
    THEN Outcome(NilRequest, hp, FALSE, 0, 0, <<>>, <<>>, <<ErrorResponse(fErr)>>, FALSE)
    ELSE
    LET p == Parse(limitParam, offsetParam, DefaultLimit, DefaultOffset, MaxLimit)
        collectionType == CollectionType(lreq.Collection)
        filt == IsFilterFor(collectionType, queryParams)
        call == IF filt
                THEN BackendCall("ListAll", lreq.Collection, "", 0, 0, bErr, data)
                ELSE BackendCall("List", lreq.Collection, "", p.limit, p.offset, bErr, data)
    IN IF bErr /= "none"
       THEN Outcome(lreq, hp, filt, p.limit, p.offset, <<>>, <<call>>,
                    <<ErrorResponse(bErr)>>, FALSE)
       ELSE LET hp1 == ManagerFill(hp, lreq.Value, data)
                f == Filter(lreq, hp1, queryParams, p.offset, p.limit)
            IN IF f.panicked
               THEN Outcome(f.l, f.heap, filt, p.limit, p.offset, f.res, <<call>>, <<>>, TRUE)
               ELSE Outcome(f.l, f.heap, filt, p.limit, p.offset, f.res, <<call>>,
                            <<WriteResponse(f.heap[f.l.Value])>>, FALSE)

\* variant: the return after the backend's WriteError is missing
GetHandler_NoReturn(fErr, d, hp, bErr, data) ==
    IF fErr /= "none"
    THEN Outcome(NilRequest, hp, FALSE, 0, 0, <<>>, <<>>, <<ErrorResponse(fErr)>>, FALSE)
    ELSE LET call == BackendCall("Get", d.Collection, d.Key, 0, 0, bErr, data)
             hp1 == ManagerFill(hp, d.Value, data)
         IN IF bErr /= "none"
            THEN Outcome(d, hp, FALSE, 0, 0, <<>>, <<call>>,
                         <<ErrorResponse(bErr), WriteResponse(hp[d.Value])>>, FALSE)
            ELSE Outcome(d, hp1, FALSE, 0, 0, <<>>, <<call>>, <<WriteResponse(hp1[d.Value])>>, FALSE)

\* the handler returned by Handler.Get
GetHandler(fErr, d, hp, bErr, data) ==
    IF fErr /= "none"
    THEN Outcome(NilRequest, hp, FALSE, 0, 0, <<>>, <<>>, <<ErrorResponse(fErr)>>, FALSE)
    ELSE LET call == BackendCall("Get", d.Collection, d.Key, 0, 0, bErr, data) IN
         IF bErr /= "none"
         THEN Outcome(d, hp, FALSE, 0, 0, <<>>, <<call>>, <<ErrorResponse(bErr)>>, FALSE)
         ELSE LET hp1 == ManagerFill(hp, d.Value, data) IN
              Outcome(d, hp1, FALSE, 0, 0, <<>>, <<call>>, <<WriteResponse(hp1[d.Value])>>, FALSE)

\* the handler returned by Handler.Delete
DeleteHandler(fErr, d, hp, bErr) ==
    IF fErr /= "none"
    THEN Outcome(NilRequest, hp, FALSE, 0, 0, <<>>, <<>>, <<ErrorResponse(fErr)>>, FALSE)
    ELSE LET call == BackendCall("Delete", d.Collection, d.Key, 0, 0, bErr, <<>>) IN
         IF bErr /= "none"
         THEN Outcome(d, hp, FALSE, 0, 0, <<>>, <<call>>, <<ErrorResponse(bErr)>>, FALSE)
         ELSE Outcome(d, hp, FALSE, 0, 0, <<>>, <<call>>, <<NoContentResponse>>, FALSE)

\* the handler returned by Handler.Upsert
UpsertHandler(fErr, u, hp, bErr) ==
    IF fErr /= "none"
    THEN Outcome(NilRequest, hp, FALSE, 0, 0, <<>>, <<>>, <<ErrorResponse(fErr)>>, FALSE)
    ELSE LET call == BackendCall("Upsert", u.Collection, u.Key, 0, 0, bErr, hp[u.Value].items) IN
         IF bErr /= "none"
         THEN Outcome(u, hp, FALSE, 0, 0, <<>>, <<call>>, <<ErrorResponse(bErr)>>, FALSE)
         ELSE Outcome(u, hp, FALSE, 0, 0, <<>>, <<call>>, <<WriteResponse(hp[u.Value])>>, FALSE)

-----------------------------------------------------------------------------
(* The state machine *)

Init ==
    /\ pc = "idle"
    /\ op = "none"
    /\ factoryErr = "none"
    /\ backendErr = "none"
    /\ l = NilRequest
    /\ heap = EmptyHeap
    /\ dest = 0
    /\ query = EmptyQuery
    /\ limit = 0
    /\ offset = 0
    /\ isFilter = FALSE
    /\ res = <<>>
    /\ calls = <<>>
    /\ responses = <<>>
    /\ panicked = FALSE

\* the handler has run: publish what it did
Ran(name, fErr, bErr, q, out) ==
    /\ pc' = "done"
    /\ op' = name
    /\ factoryErr' = fErr
    /\ backendErr' = IF out.calls = <<>> THEN "none" ELSE bErr
    /\ query' = q
    /\ dest' = IF fErr = "none" THEN 1 ELSE 0
    /\ l' = out.l
    /\ heap' = out.heap
    /\ isFilter' = out.isFilter
    /\ limit' = out.limit
    /\ offset' = out.offset
    /\ res' = out.res
    /\ calls' = out.calls
    /\ responses' = out.responses
    /\ panicked' = out.panicked

\* inputs that are never read once the factory or the backend has failed are not enumerated
OnOk(err, S, default) == IF err = "none" THEN S ELSE {default}

\* the factory's destination: one fresh cell of the Value's type
FactoryHeap(fErr, kind, items) ==
    IF fErr = "none" THEN (1 :> Cell(kind, items)) ELSE EmptyHeap

Get ==
    /\ pc = "idle"
    /\ \E fErr \in FactoryErrs :
       \E coll \in OnOk(fErr, Collections, <<>>) :
       \E key \in OnOk(fErr, Keys, "") :
       \E kind \in OnOk(fErr, {"Roles", "Policies"}, "Other") :
       \E bErr \in OnOk(fErr, BackendErrs, "none") :
       \E rec \in OnOk(fErr, OnOk(bErr, Pool(kind), [Opaque |-> "a"]), [Opaque |-> "a"]) :
          LET d == [Collection |-> coll, Key |-> key, Value |-> 1, FilterFunc |-> "nil"]
              data == IF bErr = "none" THEN <<rec>> ELSE <<>>
          IN Ran("Get", fErr, bErr, EmptyQuery,
                 GetHandler(fErr, d, FactoryHeap(fErr, kind, <<>>), bErr, data))

Delete ==
    /\ pc = "idle"
    /\ \E fErr \in FactoryErrs :
       \E coll \in OnOk(fErr, Collections, <<>>) :
       \E key \in OnOk(fErr, Keys, "") :
       \E bErr \in OnOk(fErr, BackendErrs, "none") :
          LET d == [Collection |-> coll, Key |-> key, Value |-> 0, FilterFunc |-> "nil"]
          IN Ran("Delete", fErr, bErr, EmptyQuery, DeleteHandler(fErr, d, EmptyHeap, bErr))

Upsert ==
    /\ pc = "idle"
    /\ \E fErr \in FactoryErrs :
       \E coll \in OnOk(fErr, Collections, <<>>) :
       \E key \in OnOk(fErr, Keys, "") :
       \E kind \in OnOk(fErr, {"Roles", "Policies"}, "Other") :
       \E rec \in OnOk(fErr, Pool(kind), [Opaque |-> "a"]) :
       \E bErr \in OnOk(fErr, BackendErrs, "none") :
          LET u == [Collection |-> coll, Key |-> key, Value |-> 1, FilterFunc |-> "nil"]
          IN Ran("Upsert", fErr, bErr, EmptyQuery,
                 UpsertHandler(fErr, u, FactoryHeap(fErr, kind, <<rec>>), bErr))

List ==
    /\ pc = "idle"
    /\ \E fErr \in FactoryErrs :
       \E coll \in OnOk(fErr, Collections, <<>>) :
       \E kind \in OnOk(fErr, Kinds, "Other") :
       \E ff \in OnOk(fErr, FilterFuncs, "nil") :
       \E q \in Queries :
       \E limitParam \in OnOk(fErr, LimitParams, <<>>) :
       \E offsetParam \in OnOk(fErr, OffsetParams, <<>>) :
       \E bErr \in OnOk(fErr, BackendErrs, "none") :
          LET lreq == [Collection |-> coll, Key |-> "", Value |-> 1, FilterFunc |-> ff]
              p == Parse(limitParam, offsetParam, DefaultLimit, DefaultOffset, MaxLimit)
              results == IF IsFilterFor(CollectionType(coll), q)
                         THEN ManagerListAllResults(kind)
                         ELSE ManagerListResults(kind, p.limit)
          IN \E data \in OnOk(fErr, OnOk(bErr, results, <<>>), <<>>) :
                Ran("List", fErr, bErr, q,
                    ListHandler(fErr, lreq, FactoryHeap(fErr, kind, <<>>), q,
                                limitParam, offsetParam, bErr, data))

\* the server goes back to waiting; nothing of the request survives in this layer
NextRequest ==
    /\ pc = "done"
    /\ pc' = "idle"
    /\ op' = "none"
    /\ factoryErr' = "none"
    /\ backendErr' = "none"
    /\ l' = NilRequest
    /\ heap' = EmptyHeap
    /\ dest' = 0
    /\ query' = EmptyQuery
    /\ limit' = 0
    /\ offset' = 0
    /\ isFilter' = FALSE
    /\ res' = <<>>
    /\ calls' = <<>>
    /\ responses' = <<>>
    /\ panicked' = FALSE

Next == Get \/ Delete \/ Upsert \/ List \/ NextRequest

Spec == Init /\ [][Next]_vars

-----------------------------------------------------------------------------
(* Properties *)

Range(sq) == { sq[i] : i \in 1..Len(sq) }

\* name is the last "/"-delimited segment of coll
LastSegmentIs(coll, name) ==
    /\ Len(coll) >= 1
    /\ coll[Len(coll)] = name
    /\ Len(coll) = 1 \/ coll[Len(coll) - 1] = Sep

\* the windowing of the glossary: the contiguous sub-sequence [off, off+lim)
Window(sq, lim, off) == SubSeq(sq, off + 1, Min(off + lim, Len(sq)))

RECURSIVE IsSubsequence(_, _)
IsSubsequence(a, b) ==
    IF a = <<>> THEN TRUE
    ELSE IF b = <<>> THEN FALSE
    ELSE IF Head(a) = Head(b) THEN IsSubsequence(Tail(a), Tail(b))
    ELSE IsSubsequence(a, Tail(b))

\* a dimension passes: it is absent, or the record's values meet the requested ones
Passes(values, requested) == requested = <<>> \/ Range(values) \cap Range(requested) /= {}

RoleMatches(r, m) ==
    /\ Passes(r.Members, Lookup(m, "member"))
    /\ Passes(<<r.ID>>, Lookup(m, "id"))

PolicyMatches(p, m) ==
    /\ Passes(p.Subjects, Lookup(m, "subject"))
    /\ Passes(p.Resources, Lookup(m, "resource"))
    /\ Passes(p.Actions, Lookup(m, "action"))
    /\ Passes(<<p.ID>>, Lookup(m, "id"))

IdMatches(x, m) == Passes(<<x.ID>>, Lookup(m, "id"))

RECURSIVE Keep(_, _, _)
Keep(sq, kind, m) ==
    IF sq = <<>> THEN <<>>
    ELSE LET keep == IF kind = "Roles" THEN RoleMatches(Head(sq), m)
                     ELSE IF kind = "Policies" THEN PolicyMatches(Head(sq), m)
                     ELSE IdMatches(Head(sq), m)
         IN (IF keep THEN <<Head(sq)>> ELSE <<>>) \o Keep(Tail(sq), kind, m)

\* a handler has run
Handled(name) == pc = "done" /\ op = name

\* List got past the factory and the backend
ListFetched == Handled("List") /\ factoryErr = "none" /\ backendErr = "none"

\* List wrote its success response
ListAnswered == ListFetched /\ ~panicked

\* ListByQuery ran to completion on this request
ListFiltered == ListAnswered /\ l.FilterFunc = "ListByQuery"

\* what the backend handed back, and what List wrote
Page == calls[1].result
Payload == responses[1].body.items
ValueKind == heap[dest].kind

\* C1: isFilter holds exactly when the last segment is "policies" and one of
\* action, subject, resource is present, or it is "roles" and member is
\* present (id alone never sets it); the backend is then called once, with
\* ListAll iff isFilter and with List(limit, offset) otherwise.
C1_FilterDecision ==
    (Handled("List") /\ factoryErr = "none") =>
        /\ isFilter <=>
              \/ /\ LastSegmentIs(l.Collection, "policies")
                 /\ {"action", "subject", "resource"} \cap DOMAIN query /= {}
              \/ /\ LastSegmentIs(l.Collection, "roles")
                 /\ "member" \in DOMAIN query
        /\ DOMAIN query \subseteq {"id"} => ~isFilter
        /\ Len(calls) = 1
        /\ isFilter => calls[1].name = "ListAll"
        /\ ~isFilter => /\ calls[1].name = "List"
                        /\ calls[1].limit = limit
                        /\ calls[1].offset = offset

C1_Witness ==
    /\ Handled("List") /\ isFilter /\ calls[1].name = "ListAll"
    /\ LastSegmentIs(l.Collection, "roles") /\ Len(l.Collection) > 1
    /\ DOMAIN query = {"member", "id"}

\* C2: on a roles sequence, the filtered result of ListByQuery contains a
\* role iff the role was fetched and (member filter empty or it shares a
\* member with it) and (id filter empty or its ID is in it), by exact string
\* equality.
C2_RolesFilter ==
    (ListFiltered /\ ValueKind = "Roles") =>
        LET M == Lookup(query, "member")
            I == Lookup(query, "id")
        IN \A r \in RolePool :
              r \in Range(res) <=>
                  /\ r \in Range(Page)
                  /\ M = <<>> \/ Range(r.Members) \cap Range(M) /= {}
                  /\ I = <<>> \/ r.ID \in Range(I)

C2_Witness ==
    /\ ListFiltered /\ ValueKind = "Roles"
    /\ Lookup(query, "member") = <<"alice">> /\ "id" \in DOMAIN query
    /\ \E i \in 1..Len(Page) : "Alice" \in Range(Page[i].Members)
    /\ Len(res) = 1 /\ Len(Page) = 3

\* C3: on a policies sequence, a policy is in the filtered result of
\* ListByQuery iff it was fetched and passes every dimension among subject,
\* resource, action, id that the query supplies; an absent dimension
\* excludes nothing.
C3_PoliciesFilter ==
    (ListFiltered /\ ValueKind = "Policies") =>
        /\ \A p \in PolicyPool :
              p \in Range(res) <=>
                  /\ p \in Range(Page)
                  /\ \A dim \in {"subject", "resource", "action", "id"} \cap DOMAIN query :
                        LET have == IF dim = "subject" THEN Range(p.Subjects)
                                    ELSE IF dim = "resource" THEN Range(p.Resources)
                                    ELSE IF dim = "action" THEN Range(p.Actions)
                                    ELSE {p.ID}
                        IN have \cap Range(query[dim]) /= {}
        /\ {"subject", "resource", "action", "id"} \cap DOMAIN query = {} => res = Page

C3_Witness ==
    /\ ListFiltered /\ ValueKind = "Policies"
    /\ {"resource", "action"} \subseteq DOMAIN query /\ "subject" \notin DOMAIN query
    /\ Len(res) = 1 /\ Len(Page) = 3

\* C4: Get, Delete and Upsert write exactly one response; it is the success
\* response iff the factory and the single backend call both succeeded; a
\* failed factory means no backend call, and a failure is answered by the
\* error response alone.
C4_OneResponse ==
    (pc = "done" /\ op \in {"Get", "Delete", "Upsert"}) =>
        /\ Len(responses) = 1
        /\ responses[1].kind /= "error" <=> (factoryErr = "none" /\ backendErr = "none")
        /\ responses[1].kind /= "error" =>
              responses[1].status = (IF op = "Delete" THEN 204 ELSE 200)
        /\ factoryErr /= "none" => calls = <<>> /\ responses[1].err = factoryErr
        /\ factoryErr = "none" =>
              /\ Len(calls) = 1 /\ calls[1].name = op
              /\ backendErr /= "none" => responses[1].err = backendErr

C4_Witness ==
    /\ Handled("Get") /\ factoryErr = "none" /\ backendErr = "notfound"
    /\ Len(calls) = 1 /\ responses[1].kind = "error"

\* C5: when ListByQuery is applied to a Value that is neither a roles nor a
\* policies sequence, the request panics: no response is written and Value
\* still refers to the destination as the backend filled it.
C5_UnknownTypePanics ==
    (ListFetched /\ l.FilterFunc = "ListByQuery" /\ ValueKind \notin {"Roles", "Policies"}) =>
        /\ panicked
        /\ responses = <<>>
        /\ l.Value = dest
        /\ DOMAIN heap = {dest}
        /\ heap[dest].items = Page

C5_Witness ==
    /\ ListFetched /\ l.FilterFunc = "ListByQuery" /\ ValueKind = "Other"
    /\ panicked /\ Len(Page) > 0

\* C6: the sequence List returns is a subsequence of the sequence the
\* backend returned: same relative order, nothing duplicated.
C6_OrderPreserved ==
    ListAnswered => IsSubsequence(Payload, Page)

C6_Witness ==
    /\ ListFiltered /\ ValueKind = "Policies" /\ DOMAIN query /= {}
    /\ Len(Page) = 3 /\ Len(Payload) = 2 /\ Payload[1] /= Payload[2]

\* C7: with offset = 0 and limit >= the length of the filtered result,
\* windowing once gives the whole result and windowing again changes nothing.
C7_WindowIdempotent ==
    (ListFiltered /\ offset = 0 /\ limit >= Len(res)) =>
        /\ Payload = res
        /\ Window(Payload, limit, offset) = Payload
        /\ Window(Window(res, limit, offset), limit, offset) = Window(res, limit, offset)

C7_Witness ==
    /\ ListFiltered /\ offset = 0 /\ limit = 2 /\ Len(res) = 2 /\ Len(Page) = 3

\* List took the non-filter path and ListByQuery ran to completion
NonFilterPath == ListFiltered /\ ~isFilter

\* C8 as stated: on the non-filter path the response is the (limit, offset)
\* window of the backend page after the id filter; it equals the backend page
\* when offset = 0 and is empty when offset >= the page's length.
C8_AsStated ==
    NonFilterPath =>
        /\ Payload = Window(Keep(Page, "Id", query), limit, offset)
        /\ offset = 0 => Payload = Page
        /\ offset >= Len(Page) => Payload = <<>>

\* C8 amended: on the non-filter path the response is the (limit, offset)
\* window of the backend page after the filters of the Value's type that the
\* query supplies (the id filter alone when that type matches the last
\* segment); it equals that filtered page when offset = 0, hence the backend
\* page when nothing is excluded, and is empty when offset >= the page's length.
C8_DoubleWindow ==
    NonFilterPath =>
        /\ Payload = Window(Keep(Page, ValueKind, query), limit, offset)
        /\ ( \/ LastSegmentIs(l.Collection, "roles") /\ ValueKind = "Roles"
             \/ LastSegmentIs(l.Collection, "policies") /\ ValueKind = "Policies" )
              => Payload = Window(Keep(Page, "Id", query), limit, offset)
        /\ offset = 0 => Payload = Keep(Page, ValueKind, query)
        /\ (offset = 0 /\ Keep(Page, ValueKind, query) = Page) => Payload = Page
        /\ offset >= Len(Page) => Payload = <<>>

C8_Witness ==
    /\ NonFilterPath /\ LastSegmentIs(l.Collection, "roles") /\ ValueKind = "Roles"
    /\ limit = 2 /\ offset = 1 /\ Len(Page) = 2 /\ Len(Payload) = 1
    /\ calls[1].name = "List"

\* the last segment is neither "policies" nor "roles"
OtherSegment ==
    ~LastSegmentIs(l.Collection, "policies") /\ ~LastSegmentIs(l.Collection, "roles")

\* C9 as stated: on a collection whose last segment is neither "policies"
\* nor "roles", member, subject, resource and action exclude no record of
\* the backend page, whatever the Value.
C9_AsStated ==
    (ListAnswered /\ OtherSegment) =>
        Payload = IF l.FilterFunc = "ListByQuery"
                  THEN Window(Keep(Page, "Id", query), limit, offset)
                  ELSE Page

\* C9 amended: on such a collection the fetch is never a filter fetch
\* (isFilter is false, List(limit, offset) is called); the in-memory filter
\* follows the Value's type, so member can exclude roles and subject,
\* resource, action can exclude policies when ListByQuery is bound, and none
\* of them excludes anything when no FilterFunc is bound.
C9_SegmentSelectsFetch ==
    (ListAnswered /\ OtherSegment) =>
        /\ ~isFilter
        /\ calls[1].name = "List"
        /\ Payload = IF l.FilterFunc = "ListByQuery"
                     THEN Window(Keep(Page, ValueKind, query), limit, offset)
                     ELSE Page

C9_Witness ==
    /\ ListFiltered /\ OtherSegment /\ ValueKind = "Roles"
    /\ "member" \in DOMAIN query /\ "id" \notin DOMAIN query
    /\ offset = 0 /\ Len(Page) = 2 /\ Len(Payload) = 1

\* C10 as stated: after Filter returns, the destination the factory supplied
\* holds the filtered and windowed result, the same records as the response.
C10_AsStated ==
    ListAnswered => heap[dest].items = Payload

\* C10 amended: ListByQuery rebinds l.Value to a fresh sequence holding the
\* filtered and windowed result, which is the response; the destination the
\* factory supplied still holds the backend's records unchanged.  Without a
\* FilterFunc, Value keeps referring to the destination.
C10_ValueRebound ==
    ListAnswered =>
        /\ heap[dest].items = Page
        /\ responses[1].body = heap[l.Value]
        /\ l.FilterFunc = "ListByQuery" => l.Value /= dest
        /\ l.FilterFunc = "nil" => l.Value = dest

C10_Witness ==
    /\ ListFiltered /\ l.Value /= dest
    /\ Len(heap[dest].items) = 3 /\ Len(heap[l.Value].items) = 1

====
